---- MODULE Spec2Model ----
(***************************************************************************)
(* Model of pyethapp's CodernityDB service (codernitydb_service.py): an    *)
(* in-memory write buffer `uncommitted` in front of a CodernityDB database *)
(* indexed by a non-unique hash index on the md5 of the key.               *)
(***************************************************************************)
EXTENDS Integers, Sequences, FiniteSets, TLC

(* ------------------------------ bounds --------------------------------- *)

\* Most slots (documents ever inserted, deleted ones included) the model lets
\* the 'key' index grow to, over all keys.
MaxDocs == 2

\* The count of commits completed since the last write stops at this number.
MaxCleanCommits == 2

\* Keys handed to the store (opaque byte strings; md5 is injective on them).
Keys == {"k1", "k2"}

\* Values handed to put: a literal byte followed by the escape byte, and a
\* run of two zero bytes.
Values == { <<7, 254>>, <<0, 0>> }

\* Epoch arguments of the refcount hooks.
Epochs == {0, 1}

\* A stored byte string no compress() call produces: 0xfe at the end.
CorruptStored == <<254>>

(* ------------------------------ compressor ----------------------------- *)

\* sha3('') as bytes; decompress expands 0xfe 0x01 to it.
NULLSHA3 ==
  << 197, 210, 70, 1, 134, 247, 35, 60, 146, 126, 125, 178, 220, 199, 3, 192,
     229, 0, 182, 83, 202, 130, 39, 59, 123, 250, 216, 4, 93, 133, 164, 112 >>

\* Number of zero bytes of data starting at position i (1-based), at most 255.
RECURSIVE ZeroRun(_, _, _)
ZeroRun(data, i, p) ==
  IF p < 255 /\ i + p <= Len(data) /\ data[i + p] = 0
    THEN ZeroRun(data, i, p + 1)
    ELSE p

RECURSIVE compressFrom(_, _)
compressFrom(data, i) ==
  IF i > Len(data) THEN <<>>
  ELSE IF data[i] = 254 THEN <<254, 0>> \o compressFrom(data, i + 1)
  ELSE IF i + 31 <= Len(data) /\ SubSeq(data, i, i + 31) = NULLSHA3
    THEN <<254, 1>> \o compressFrom(data, i + 32)
  ELSE IF i + 1 <= Len(data) /\ data[i] = 0 /\ data[i + 1] = 0
    THEN LET p == ZeroRun(data, i, 2)
         IN  <<254, p>> \o compressFrom(data, i + p)
  ELSE <<data[i]>> \o compressFrom(data, i + 1)

compress(data) == compressFrom(data, 1)

\* TRUE when decompress raises on data (0xfe is the last byte of an item).
RECURSIVE decompressFails(_, _)
decompressFails(data, i) ==
  IF i > Len(data) THEN FALSE
  ELSE IF data[i] = 254
    THEN IF i = Len(data) THEN TRUE ELSE decompressFails(data, i + 2)
  ELSE decompressFails(data, i + 1)

RECURSIVE Zeros(_)
Zeros(n) == IF n = 0 THEN <<>> ELSE <<0>> \o Zeros(n - 1)

RECURSIVE decompressFrom(_, _)
decompressFrom(data, i) ==
  IF i > Len(data) THEN <<>>
  ELSE IF data[i] = 254
    THEN IF i = Len(data) THEN <<>>
         ELSE IF data[i + 1] = 0 THEN <<254>> \o decompressFrom(data, i + 2)
         ELSE IF data[i + 1] = 1 THEN NULLSHA3 \o decompressFrom(data, i + 2)
         ELSE Zeros(data[i + 1]) \o decompressFrom(data, i + 2)
  ELSE <<data[i]>> \o decompressFrom(data, i + 1)

decompress(data) == decompressFrom(data, 1)

(* ------------------------------ backing database ----------------------- *)

\* A slot of a bucket chain of the 'key' index: a live document with its
\* stored value, or a slot whose document was deleted.
LiveSlot(value) == [live |-> TRUE, value |-> value]
DeadSlot == [live |-> FALSE, value |-> <<>>]

\* Position of the first live slot of a chain, 0 when there is none.
RECURSIVE FirstLive(_, _)
FirstLive(chain, i) ==
  IF i > Len(chain) THEN 0
  ELSE IF chain[i].live THEN i
  ELSE FirstLive(chain, i + 1)

\* db.get('key', k, with_doc=True): the position of the document returned,
\* 0 for RecordNotFound.
DbGet(d, k) == FirstLive(d[k], 1)

\* Slot after which the index links a new entry: the first deleted slot, or
\* the last slot of the chain.
RECURSIVE FindPlace(_, _)
FindPlace(chain, i) ==
  IF i >= Len(chain) \/ ~chain[i].live THEN i ELSE FindPlace(chain, i + 1)

InsertAfter(chain, i, slot) ==
  SubSeq(chain, 1, i) \o <<slot>> \o SubSeq(chain, i + 1, Len(chain))

\* db.insert({'key': k, 'value': value}): always a new document; the index
\* is not unique, so documents already stored under k stay.
DbInsert(d, k, value) ==
  [d EXCEPT ![k] =
     IF d[k] = <<>> THEN <<LiveSlot(value)>>
     ELSE InsertAfter(d[k], FindPlace(d[k], 1), LiveSlot(value))]

\* db.delete(doc) for the document at position i of k's chain.
DbDelete(d, k, i) == [d EXCEPT ![k][i] = DeadSlot]

\* Stored values of the live documents of k.
LiveValues(d, k) == { d[k][i].value : i \in { j \in 1..Len(d[k]) : d[k][j].live } }

\* Number of slots of the chains of the keys ks.
RECURSIVE Slots(_, _)
Slots(d, ks) ==
  IF ks = {} THEN 0
  ELSE LET k == CHOOSE x \in ks : TRUE
       IN  Len(d[k]) + Slots(d, ks \ {k})

LiveCount(d, k) == Cardinality({ j \in 1..Len(d[k]) : d[k][j].live })

(* ------------------------------ store state ---------------------------- *)

VARIABLES
  uncommitted,  \* self.uncommitted: dict key -> pending value or None
  db,           \* self.db: key -> bucket chain of the 'key' index
  pc,           \* "idle", or "commit" inside the loop of commit()
  items,        \* commit(): the entries of list(self.uncommitted.items()) still to apply;
                \* after a commit that raised, the entry it raised at and those after it
  applied,      \* commit(): the entries applied so far by the running or last commit
  begin,        \* db as it was when the running or last commit began
  written,      \* key -> entry of the last put/delete on it since the last commit began
  cleanCommits, \* commits completed since the last put/delete, up to MaxCleanCommits
  last,         \* the last call that returned or raised, with its outcome
  started,      \* self.started: the service has been started
  stop_event    \* self.stop_event is set: stop() has closed the database

vars ==
  <<uncommitted, db, pc, items, applied, begin, written, cleanCommits, last,
    started, stop_event>>

\* State of the import command (app.py, import_blocks).
VARIABLES
  data,      \* data = file.read(): the bytes to import
  parts,     \* the pieces data was put together from, in order
  known,     \* hashes chain.knows_block answers True for
  ipc,       \* position of import_blocks, or how it ended
  gen_i,     \* blocks(): the offset i of the generator the loop iterates
  next_i,    \* blocks(): next_i of the item the last generator run is suspended at
  block,     \* the value the generator has yielded to the loop
  first_block, \* first_block = next(blocks())
  yielded,   \* what the generator of the loop has yielded so far, with the offsets
  block_queue, \* chain.block_queue
  enqueued,  \* the blocks handed to chain.add_block, in order
  consumed,  \* the blocks the chain service has taken off block_queue, in order
  outcomes   \* for each offset of data, what an iteration of blocks() at it does

importVars ==
  <<data, parts, known, ipc, gen_i, next_i, block, first_block, yielded,
    block_queue, enqueued, consumed, outcomes>>

\* State of the export command (app.py, export_blocks).
VARIABLES
  from_,       \* the option --from, then from_ with its default applied
  to,          \* the option --to, then to with its default applied
  head_number, \* app.services.chain.chain.head.number
  file,        \* the bytes of FILE
  exp_n,       \* the loop variable n of export
  epc,         \* position of export_blocks, or how it ended
  args,        \* the options as given, and FILE as it was
  written_n    \* the block numbers whose bytes were written, in order

exportVars == <<from_, to, head_number, file, exp_n, epc, args, written_n>>

allVars == <<vars, importVars, exportVars>>

\* An option of the command line: a number, or None when left out.
Arg(x) == [given |-> TRUE, n |-> x]
Omitted == [given |-> FALSE, n |-> 0]

\* A record of a block as import sees it: header.prevhash and header.hash.
TransientBlock(prevhash, hash) == [ok |-> TRUE, prevhash |-> prevhash, hash |-> hash]

\* The None the generator yields for an item that is no valid block.
NoBlock == [ok |-> FALSE, prevhash |-> 0, hash |-> 0]

\* The import command is not running.
ImportOff ==
  /\ data = <<>>
  /\ parts = <<>>
  /\ known = {}
  /\ ipc = "off"
  /\ gen_i = 0
  /\ next_i = 0
  /\ block = NoBlock
  /\ first_block = NoBlock
  /\ yielded = <<>>
  /\ block_queue = <<>>
  /\ enqueued = <<>>
  /\ consumed = <<>>
  /\ outcomes = <<>>

\* The export command is not running.
ExportOff ==
  /\ from_ = Omitted
  /\ to = Omitted
  /\ head_number = 0
  /\ file = <<>>
  /\ exp_n = 0
  /\ epc = "off"
  /\ args = <<Omitted, Omitted, <<>>>>
  /\ written_n = <<>>

\* Pending entries: a value, or None (the tombstone).
Some(v) == [some |-> TRUE, v |-> v]
None == [some |-> FALSE, v |-> <<>>]

EmptyDict == [k \in {} |-> None]

\* d[key] = entry on a Python dict.
SetItem(d, key, entry) ==
  [k \in DOMAIN d \cup {key} |-> IF k = key THEN entry ELSE d[k]]

Result(op, key, res, val) == [op |-> op, key |-> key, res |-> res, val |-> val]

(* ------------------------------ operations ----------------------------- *)

\* Mutant of get: the database is consulted before the buffer.
get_db_first(u, d, key) ==
  IF DbGet(d, key) # 0
    THEN LET value == d[key][DbGet(d, key)].value
         IN  IF decompressFails(value, 1) THEN [res |-> "Exception", val |-> <<>>]
             ELSE [res |-> "value", val |-> decompress(value)]
  ELSE IF key \in DOMAIN u /\ u[key].some THEN [res |-> "value", val |-> u[key].v]
  ELSE [res |-> "KeyError", val |-> <<>>]

\* Mutant of get: a pending value goes through decompress like a stored one.
get_decompress_pending(u, d, key) ==
  LET value == IF key \in DOMAIN u THEN u[key].v ELSE d[key][DbGet(d, key)].value
  IN  IF key \in DOMAIN u /\ ~u[key].some THEN [res |-> "KeyError", val |-> <<>>]
      ELSE IF key \notin DOMAIN u /\ DbGet(d, key) = 0 THEN [res |-> "KeyError", val |-> <<>>]
      ELSE IF decompressFails(value, 1) THEN [res |-> "Exception", val |-> <<>>]
      ELSE [res |-> "value", val |-> decompress(value)]

\* get(key): outcome "value" with the bytes returned, "KeyError", or
\* "Exception" when compress.decompress raises.
get(u, d, key) ==
  IF key \in DOMAIN u
    THEN IF ~u[key].some THEN [res |-> "KeyError", val |-> <<>>]
         ELSE [res |-> "value", val |-> u[key].v]
  ELSE IF DbGet(d, key) = 0 THEN [res |-> "KeyError", val |-> <<>>]
  ELSE LET value == d[key][DbGet(d, key)].value
       IN  IF decompressFails(value, 1) THEN [res |-> "Exception", val |-> <<>>]
           ELSE [res |-> "value", val |-> decompress(value)]

\* Mutant of put: a pending value of the key is kept (setdefault).
put_keep_first(u, key, value) ==
  IF key \in DOMAIN u /\ u[key].some THEN u ELSE SetItem(u, key, Some(value))

\* put(key, value)
put(u, key, value) == SetItem(u, key, Some(value))

\* Mutant of delete: the pending entry is dropped instead of a tombstone stored.
delete_pop(u, key) == [k \in DOMAIN u \ {key} |-> u[k]]

\* delete(key)
delete(u, key) == SetItem(u, key, None)

\* __contains__(key): "True", "False", or "Exception" when get raises
\* something other than KeyError.
contains(u, d, key) ==
  LET r == get(u, d, key)
  IN  IF r.res = "KeyError" THEN "False"
      ELSE IF r.res = "value" THEN "True"
      ELSE r.res

\* inc_refcount(key, value)
inc_refcount(u, key, value) == put(u, key, value)

\* Mutant of dec_refcount: the key is deleted.
dec_refcount_delete(u, key) == delete(u, key)

\* Mutant of dec_refcount: the pending entry of the key is dropped.
dec_refcount_pop(u, key) == [k \in DOMAIN u \ {key} |-> u[k]]

\* dec_refcount(key)
dec_refcount(u, key) == u

\* put_temporarily(key, value)
put_temporarily(u, key, value) == dec_refcount(inc_refcount(u, key, value), key)

\* revert_refcount_changes(epoch), commit_refcount_changes(epoch), cleanup(epoch)
revert_refcount_changes(u, epoch) == u
commit_refcount_changes(u, epoch) == u
cleanup(u, epoch) == u

\* Mutant of DbAfterCall: a call writes one pending value through to the
\* database.
DbWrittenThrough(d, u) ==
  IF \E k \in DOMAIN u : u[k].some
    THEN LET k == CHOOSE x \in DOMAIN u : u[x].some
         IN  DbInsert(d, k, compress(u[k].v))
    ELSE d

\* self.db after a call of get, put, delete, __contains__ or a refcount hook
\* made with the buffer u: none of them has a statement that writes to it.
DbAfterCall(d, u) == d

(* ------------------------------ commit --------------------------------- *)

\* All orders in which list(self.uncommitted.items()) can list the entries
\* of u (a dict promises no order).
ItemOrders(u) ==
  { s \in [1..Cardinality(DOMAIN u) -> DOMAIN u] :
      \A i, j \in DOMAIN s : i # j => s[i] # s[j] }

ItemsIn(u, order) == [i \in DOMAIN order |-> <<order[i], u[order[i]]>>]

\* The loop body of commit() raises RecordNotFound: a tombstone whose key has
\* no live document makes db.get raise, and commit does not catch it.
RaisesRecordNotFound(d, k, e) == ~e.some /\ DbGet(d, k) = 0

\* Mutant of ApplyEntry: a put first drops the deleted slots of every chain.
ApplyEntryCompacting(d, k, e) ==
  IF ~e.some THEN DbDelete(d, k, DbGet(d, k))
  ELSE DbInsert([x \in DOMAIN d |-> SelectSeq(d[x], LAMBDA slot : slot.live)],
                k, compress(e.v))

\* The loop body of commit() for one entry (k, e) that does not raise.
ApplyEntry(d, k, e) ==
  IF ~e.some THEN DbDelete(d, k, DbGet(d, k))
  ELSE DbInsert(d, k, compress(e.v))

\* Mutant of DbAfterRaise: the database is rolled back.
DbRolledBack(d, b) == b

\* The database once an exception has left commit(): there is no handler,
\* so what the earlier iterations did stays (b is the database at the start).
DbAfterRaise(d, b) == d

\* Mutant of UncommittedAfterRaise: the entries already applied are dropped.
UncommittedWithoutApplied(u, done) ==
  [k \in DOMAIN u \ { done[i][1] : i \in DOMAIN done } |-> u[k]]

\* self.uncommitted once an exception has left commit(): clear() was not
\* reached (done is the list of entries already applied).
UncommittedAfterRaise(u, done) == u

\* Mutant of UncommittedInLoop: each entry leaves the buffer once applied.
UncommittedPopped(u, k) == [x \in DOMAIN u \ {k} |-> u[x]]

\* self.uncommitted after an iteration of the loop of commit() on key k: the
\* loop body does not touch it.
UncommittedInLoop(u, k) == u

\* Mutant of clear: the buffer is left as it is.
clear_skipped(u) == u

\* self.uncommitted.clear()
clear(u) == EmptyDict

(* ------------------------------ actions -------------------------------- *)

InitStored == { compress(v) : v \in Values } \cup { CorruptStored }

\* Chains an opened database can hold for a key: no document, or one.
InitChains == { <<>> } \cup { <<LiveSlot(s)>> : s \in InitStored }

\* What the path of the database holds when the service is constructed: no
\* database, or a database with its documents.
NoDatabase == [exists |-> FALSE, docs |-> <<>>]
Disks == {NoDatabase} \cup { [exists |-> TRUE, docs |-> f] : f \in [Keys -> InitChains] }

\* Mutant of create_db: the created database holds a document for every key.
create_db_seeded(ks) == [k \in ks |-> <<LiveSlot(compress(<<0, 0>>))>>]

\* self.db.create() and add_index: an empty 'key' index.
create_db(ks) == [k \in ks |-> <<>>]

\* self.db.open(), or create() when open raises DatabasePathException.
open_db(disk) == IF disk.exists THEN disk.docs ELSE create_db(Keys)

\* __init__ with nothing or something at the path of the database.
InitOn(disks) ==
  /\ uncommitted = EmptyDict
  /\ \E disk \in disks : db = open_db(disk)
  /\ pc = "idle"
  /\ items = <<>>
  /\ applied = <<>>
  /\ begin = db
  /\ written = EmptyDict
  /\ cleanCommits = 0
  /\ last = Result("init", "-", "ok", <<>>)
  /\ started = FALSE
  /\ stop_event = FALSE
  /\ ImportOff
  /\ ExportOff

Init == InitOn(Disks)

\* __init__ when the database does not exist.
InitFresh == InitOn({NoDatabase})

\* A call outside commit(): the bookkeeping of the last commit is dropped.
Call ==
  /\ pc = "idle"
  /\ ~stop_event
  /\ pc' = pc
  /\ db' = DbAfterCall(db, uncommitted)
  /\ items' = <<>>
  /\ applied' = <<>>
  /\ begin' = db
  /\ UNCHANGED <<started, stop_event, importVars, exportVars>>

Get ==
  \E k \in Keys :
    /\ Call
    /\ last' = Result("get", k, get(uncommitted, db, k).res, get(uncommitted, db, k).val)
    /\ UNCHANGED <<uncommitted, written, cleanCommits>>

Put ==
  \E k \in Keys, v \in Values :
    /\ Call
    /\ uncommitted' = put(uncommitted, k, v)
    /\ written' = SetItem(written, k, Some(v))
    /\ cleanCommits' = 0
    /\ last' = Result("put", k, "ok", v)

Delete ==
  \E k \in Keys :
    /\ Call
    /\ uncommitted' = delete(uncommitted, k)
    /\ written' = SetItem(written, k, None)
    /\ cleanCommits' = 0
    /\ last' = Result("delete", k, "ok", <<>>)

Contains ==
  \E k \in Keys :
    /\ Call
    /\ last' = Result("contains", k, contains(uncommitted, db, k), <<>>)
    /\ UNCHANGED <<uncommitted, written, cleanCommits>>

IncRefcount ==
  \E k \in Keys, v \in Values :
    /\ Call
    /\ uncommitted' = inc_refcount(uncommitted, k, v)
    /\ written' = SetItem(written, k, Some(v))
    /\ cleanCommits' = 0
    /\ last' = Result("inc_refcount", k, "ok", v)

DecRefcount ==
  \E k \in Keys :
    /\ Call
    /\ uncommitted' = dec_refcount(uncommitted, k)
    /\ last' = Result("dec_refcount", k, "ok", <<>>)
    /\ UNCHANGED <<written, cleanCommits>>

PutTemporarily ==
  \E k \in Keys, v \in Values :
    /\ Call
    /\ uncommitted' = put_temporarily(uncommitted, k, v)
    /\ written' = SetItem(written, k, Some(v))
    /\ cleanCommits' = 0
    /\ last' = Result("put_temporarily", k, "ok", v)

RevertRefcountChanges ==
  \E e \in Epochs :
    /\ Call
    /\ uncommitted' = revert_refcount_changes(uncommitted, e)
    /\ last' = Result("revert_refcount_changes", "-", "ok", <<>>)
    /\ UNCHANGED <<written, cleanCommits>>

CommitRefcountChanges ==
  \E e \in Epochs :
    /\ Call
    /\ uncommitted' = commit_refcount_changes(uncommitted, e)
    /\ last' = Result("commit_refcount_changes", "-", "ok", <<>>)
    /\ UNCHANGED <<written, cleanCommits>>

Cleanup ==
  \E e \in Epochs :
    /\ Call
    /\ uncommitted' = cleanup(uncommitted, e)
    /\ last' = Result("cleanup", "-", "ok", <<>>)
    /\ UNCHANGED <<written, cleanCommits>>

\* commit() is entered: the entries are listed. The index stays within
\* MaxDocs slots (the bound of the model).
CommitBegin ==
  /\ pc = "idle"
  /\ ~stop_event
  /\ Slots(db, Keys) + Cardinality({ k \in DOMAIN uncommitted : uncommitted[k].some }) <= MaxDocs
  /\ \E order \in ItemOrders(uncommitted) : items' = ItemsIn(uncommitted, order)
  /\ pc' = "commit"
  /\ applied' = <<>>
  /\ begin' = db
  /\ written' = EmptyDict
  /\ last' = Result("commit", "-", "running", <<>>)
  /\ UNCHANGED <<uncommitted, db, cleanCommits, started, stop_event, importVars, exportVars>>

\* One iteration of the loop of commit() that completes.
CommitApply ==
  /\ pc = "commit"
  /\ items # <<>>
  /\ LET k == Head(items)[1]
         e == Head(items)[2]
     IN  /\ ~RaisesRecordNotFound(db, k, e)
         /\ db' = ApplyEntry(db, k, e)
         /\ applied' = Append(applied, Head(items))
  /\ items' = Tail(items)
  /\ uncommitted' = UncommittedInLoop(uncommitted, Head(items)[1])
  /\ UNCHANGED <<pc, begin, written, cleanCommits, last, started, stop_event, importVars, exportVars>>

\* One iteration of the loop of commit() that raises: RecordNotFound from
\* db.get, or an I/O failure of the database operation.
CommitRaise ==
  /\ pc = "commit"
  /\ items # <<>>
  /\ LET k == Head(items)[1]
         e == Head(items)[2]
     IN  \/ /\ RaisesRecordNotFound(db, k, e)
            /\ last' = Result("commit", k, "RecordNotFound", <<>>)
         \/ last' = Result("commit", k, "IOError", <<>>)
  /\ db' = DbAfterRaise(db, begin)
  /\ uncommitted' = UncommittedAfterRaise(uncommitted, applied)
  /\ pc' = "idle"
  /\ UNCHANGED <<items, applied, begin, written, cleanCommits, started, stop_event, importVars, exportVars>>

\* The loop of commit() is over: the buffer is cleared and commit returns.
CommitEnd ==
  /\ pc = "commit"
  /\ items = <<>>
  /\ uncommitted' = clear(uncommitted)
  /\ pc' = "idle"
  /\ cleanCommits' = IF cleanCommits < MaxCleanCommits THEN cleanCommits + 1 ELSE cleanCommits
  /\ last' = Result("commit", "-", "ok", <<>>)
  /\ UNCHANGED <<db, items, applied, begin, written, started, stop_event, importVars, exportVars>>

Next ==
  \/ Get
  \/ Put
  \/ Delete
  \/ Contains
  \/ IncRefcount
  \/ DecRefcount
  \/ PutTemporarily
  \/ RevertRefcountChanges
  \/ CommitRefcountChanges
  \/ Cleanup
  \/ CommitBegin
  \/ CommitApply
  \/ CommitRaise
  \/ CommitEnd

Spec == Init /\ [][Next]_allVars

\* The store constructed where no database exists.
SpecFresh == InitFresh /\ [][Next]_allVars

(* ------------------------------ start and stop ------------------------- *)

\* The database after every entry of the buffer u for the keys ks is applied
\* to d, a tombstone without document being passed over.
RECURSIVE Flushed(_, _, _)
Flushed(d, u, ks) ==
  IF ks = {} THEN d
  ELSE LET k == CHOOSE x \in ks : TRUE
       IN  IF RaisesRecordNotFound(d, k, u[k]) THEN Flushed(d, u, ks \ {k})
           ELSE Flushed(ApplyEntry(d, k, u[k]), u, ks \ {k})

\* Mutant of stop_db: stop() commits the buffer before it closes the database.
stop_db_committing(d, u) == Flushed(d, u, DOMAIN u)

\* The documents of the database after stop() called with the buffer u:
\* stop() logs and closes, it applies nothing.
stop_db(d, u) == d

\* if self.started: self.db.close(); self.stop_event.set()
stop_closes(st) == st

\* The service is started (BaseService.start): _run waits for stop_event.
Start ==
  /\ pc = "idle"
  /\ ~started
  /\ ~stop_event
  /\ started' = TRUE
  /\ UNCHANGED <<uncommitted, db, pc, items, applied, begin, written, cleanCommits, last,
                 stop_event, importVars, exportVars>>

\* stop(): outside commit() and before the database is closed.
Stop ==
  /\ pc = "idle"
  /\ ~stop_event
  /\ db' = stop_db(db, uncommitted)
  /\ stop_event' = stop_closes(started)
  /\ last' = Result("stop", "-", "ok", <<>>)
  /\ items' = <<>>
  /\ applied' = <<>>
  /\ begin' = db
  /\ UNCHANGED <<uncommitted, pc, written, cleanCommits, started, importVars, exportVars>>

NextStop ==
  \/ Next
  \/ Start
  \/ Stop

\* The store with its life cycle as a service.
SpecStop == Init /\ [][NextStop]_allVars

(* ------------------------------ rlp codec ------------------------------ *)

\* Decoded items: a byte string, or a list of items.
RlpStr(bytes) == [list |-> FALSE, bytes |-> bytes, items |-> <<>>]
RlpList(its) == [list |-> TRUE, bytes |-> <<>>, items |-> its]

\* rlp[a:b] of Python (offsets from 0, cut at the end of rlp).
Slice(rlp, a, b) ==
  LET e == IF b < Len(rlp) THEN b ELSE Len(rlp)
  IN  IF a < e THEN SubSeq(rlp, a + 1, e) ELSE <<>>

RECURSIVE big_endian_to_int(_)
big_endian_to_int(bytes) ==
  IF bytes = <<>> THEN 0
  ELSE 256 * big_endian_to_int(SubSeq(bytes, 1, Len(bytes) - 1)) + bytes[Len(bytes)]

Prefix(err, isList, length, s) == [err |-> err, list |-> isList, length |-> length, s |-> s]

\* The prefix with a length of lengths (long string, long list).
LongPrefix(rlp, start, ll, isList) ==
  IF Slice(rlp, start + 1, start + 2) = <<0>> THEN Prefix("DecodingError", isList, 0, 0)
  ELSE LET l == big_endian_to_int(Slice(rlp, start + 1, start + 1 + ll))
       IN  IF l < 56 THEN Prefix("DecodingError", isList, 0, 0)
           ELSE Prefix("none", isList, l, start + 1 + ll)

\* rlp.codec.consume_length_prefix(rlp, start): rlp[start] past the end is
\* an IndexError.
consume_length_prefix(rlp, start) ==
  IF start >= Len(rlp) THEN Prefix("IndexError", FALSE, 0, 0)
  ELSE LET b0 == rlp[start + 1]
       IN  IF b0 < 128 THEN Prefix("none", FALSE, 1, start)
           ELSE IF b0 < 128 + 56
             THEN IF b0 - 128 = 1 /\ start + 1 >= Len(rlp)
                    THEN Prefix("IndexError", FALSE, 0, 0)
                  ELSE IF b0 - 128 = 1 /\ rlp[start + 2] < 128
                    THEN Prefix("DecodingError", FALSE, 0, 0)
                  ELSE Prefix("none", FALSE, b0 - 128, start + 1)
           ELSE IF b0 < 192 THEN LongPrefix(rlp, start, b0 - 128 - 56 + 1, FALSE)
           ELSE IF b0 < 192 + 56 THEN Prefix("none", TRUE, b0 - 192, start + 1)
           ELSE LongPrefix(rlp, start, b0 - 192 - 56 + 1, TRUE)

Consumed(err, item, next) == [err |-> err, item |-> item, next |-> next]

RECURSIVE consume_item(_, _)
RECURSIVE consume_list(_, _, _, _)

\* rlp.codec.consume_payload for a list: the items from next_item_start to end.
consume_list(rlp, next_item_start, end, its) ==
  IF next_item_start < end
    THEN LET r == consume_item(rlp, next_item_start)
         IN  IF r.err # "none" THEN r
             ELSE consume_list(rlp, r.next, end, Append(its, r.item))
  ELSE IF next_item_start > end THEN Consumed("DecodingError", RlpStr(<<>>), 0)
  ELSE Consumed("none", RlpList(its), next_item_start)

\* rlp.codec.consume_item(rlp, start): the item and the offset after it, or
\* the exception raised. A string payload is a slice: one cut short by the
\* end of rlp raises nothing.
consume_item(rlp, start) ==
  LET p == consume_length_prefix(rlp, start)
  IN  IF p.err # "none" THEN Consumed(p.err, RlpStr(<<>>), 0)
      ELSE IF ~p.list
        THEN Consumed("none", RlpStr(Slice(rlp, p.s, p.s + p.length)), p.s + p.length)
      ELSE consume_list(rlp, p.s, p.s + p.length, <<>>)

(* ------------------------------ import ---------------------------------- *)

\* Most pieces the imported bytes are put together from.
MaxItems == 3

\* Capacity of chain.block_queue.
MaxQueue == 2

\* A header the model takes for well-formed: a list of two one-byte strings,
\* prevhash and the byte standing for the hash of the header.
IsHeader(item) ==
  /\ item.list
  /\ Len(item.items) = 2
  /\ \A j \in 1..2 : ~item.items[j].list /\ Len(item.items[j].bytes) = 1

\* eth_protocol.TransientBlock.init_from_rlp(block_data): the block, or
\* NoBlock for DeserializationError.
init_from_rlp(block_data) ==
  IF IsHeader(block_data.items[1]) /\ block_data.items[2].list /\ block_data.items[3].list
    THEN TransientBlock(block_data.items[1].items[1].bytes[1],
                        block_data.items[1].items[2].bytes[1])
    ELSE NoBlock

Step(kind, value, next) == [kind |-> kind, value |-> value, next |-> next]

\* Mutant of blocks_step: an item that is no valid block ends the import like
\* an invalid encoding.
blocks_step_strict(rlp, at) ==
  LET r == consume_item(rlp, at)
  IN  IF r.err = "DecodingError" THEN Step("exit_rlp", NoBlock, at)
      ELSE IF r.err = "IndexError" THEN Step("IndexError", NoBlock, at)
      ELSE IF ~r.item.list \/ Len(r.item.items) # 3 THEN Step("exit_rlp", NoBlock, at)
      ELSE IF ~init_from_rlp(r.item).ok THEN Step("exit_rlp", NoBlock, at)
      ELSE Step("yield", init_from_rlp(r.item), r.next)

\* Mutant of blocks_step: after an invalid encoding the generator yields None
\* and goes on one byte further.
blocks_step_resuming(rlp, at) ==
  LET r == consume_item(rlp, at)
  IN  IF r.err # "none" THEN Step("yield", NoBlock, at + 1)
      ELSE IF ~r.item.list \/ Len(r.item.items) # 3 THEN Step("yield", NoBlock, r.next)
      ELSE Step("yield", init_from_rlp(r.item), r.next)

\* Mutant of blocks_step: the generator decodes one item ahead and ends the
\* import before it yields a block that is followed by an invalid encoding.
blocks_step_lookahead(rlp, at) ==
  LET r == consume_item(rlp, at)
  IN  IF r.err = "DecodingError" THEN Step("exit_rlp", NoBlock, at)
      ELSE IF r.err = "IndexError" THEN Step("IndexError", NoBlock, at)
      ELSE IF r.next < Len(rlp) /\ consume_item(rlp, r.next).err # "none"
        THEN Step("exit_rlp", NoBlock, at)
      ELSE IF ~r.item.list \/ Len(r.item.items) # 3 THEN Step("yield", NoBlock, r.next)
      ELSE Step("yield", init_from_rlp(r.item), r.next)

\* One iteration of the loop of blocks() at offset at < len(data), up to its
\* yield: sys.exit(1) on DecodingError, an IndexError nothing catches, or the
\* value yielded with next_i.
blocks_step(rlp, at) ==
  LET r == consume_item(rlp, at)
  IN  IF r.err = "DecodingError" THEN Step("exit_rlp", NoBlock, at)
      ELSE IF r.err = "IndexError" THEN Step("IndexError", NoBlock, at)
      ELSE IF ~r.item.list \/ Len(r.item.items) # 3 THEN Step("yield", NoBlock, r.next)
      ELSE Step("yield", init_from_rlp(r.item), r.next)

\* Mutant of resume: the generator goes on one byte late.
resume_late(at, nxt) == nxt + 1

\* i = next_i when the generator is resumed.
resume(at, nxt) == nxt

\* Mutant of loop_start: the loop goes on with the generator that gave the
\* first block (nxt is the offset after the first item).
loop_start_after_first(nxt) == nxt

\* The loop iterates a new call of blocks(): i = 0.
loop_start(nxt) == 0

\* Mutant of next_exhausted: with nothing to decode import_blocks returns.
next_exhausted_returns(rlp) == "returned"

\* next(blocks()) when the generator ends without a yield (rlp is empty, the
\* while loop is not entered): StopIteration, which nothing catches.
next_exhausted(rlp) == "StopIteration"

\* Mutant of first_invalid: the check of the first block is left out.
first_invalid_unchecked(b) == FALSE

\* first_block is None
first_invalid(b) == ~b.ok

\* Mutant of linked: both the block and its parent have to be known.
linked_both(kn, b) == b.hash \in kn /\ b.prevhash \in kn

\* chain.knows_block(first_block.header.hash) or
\* chain.knows_block(first_block.header.prevhash)
linked(kn, b) == b.hash \in kn \/ b.prevhash \in kn

\* Mutant of skip_block: None is handed to add_block like a block.
skip_block_never(b) == FALSE

\* block is None: the loop skips it.
skip_block(b) == ~b.ok

\* Mutant of queue_drained: the wait loop never sees the queue empty.
queue_never_drained(q) == FALSE

\* Mutant of queue_drained: import does not wait for the queue.
queue_drained_unchecked(q) == TRUE

\* chain.block_queue.empty(), the exit condition of the wait loop.
queue_drained(q) == q = <<>>

\* The bytes of a block with header [prevhash, hash], no transaction and no
\* uncle.
BlockBytes(prevhash, hash) == <<197, 194, prevhash, hash, 192, 192>>

Part(kind, bytes, prevhash, hash) ==
  [kind |-> kind, bytes |-> bytes, prevhash |-> prevhash, hash |-> hash]

\* The pieces a file is made of: two blocks, an empty list, a list of three
\* fields whose header is a string, a long-string prefix announcing a short
\* length (DecodingError), a string prefix announcing more bytes than follow,
\* and a one-byte-string prefix whose byte is missing at the end of the file
\* (IndexError). The last two take bytes of the piece that follows them.
Pieces ==
  { Part("block", BlockBytes(0, 1), 0, 1),
    Part("block", BlockBytes(1, 2), 1, 2),
    Part("malformed", <<192>>, 0, 0),
    Part("malformed", <<195, 1, 192, 192>>, 0, 0),
    Part("invalid", <<184, 5>>, 0, 0),
    Part("cut", <<130, 200>>, 0, 0),
    Part("short", <<129>>, 0, 0) }

\* What chain.knows_block knows: nothing, the parent of the first block of
\* Pieces, or the second block.
KnownSets == { {}, {0}, {2} }

PartSeqs == UNION { [1..m -> Pieces] : m \in 0..MaxItems }

RECURSIVE Concat(_)
Concat(ps) == IF ps = <<>> THEN <<>> ELSE Head(ps).bytes \o Concat(Tail(ps))

\* The store as the import and export commands leave it: untouched.
StoreOff ==
  /\ uncommitted = EmptyDict
  /\ db = [k \in Keys |-> <<>>]
  /\ pc = "idle"
  /\ items = <<>>
  /\ applied = <<>>
  /\ begin = db
  /\ written = EmptyDict
  /\ cleanCommits = 0
  /\ last = Result("init", "-", "ok", <<>>)
  /\ started = FALSE
  /\ stop_event = FALSE

\* import_blocks up to app.start(): the queue is empty (the assert), the
\* file is read.
ImportInit ==
  /\ StoreOff
  /\ ExportOff
  /\ parts \in PartSeqs
  /\ data = Concat(parts)
  /\ known \in KnownSets
  /\ ipc = "first"
  /\ gen_i = 0
  /\ next_i = 0
  /\ block = NoBlock
  /\ first_block = NoBlock
  /\ yielded = <<>>
  /\ block_queue = <<>>
  /\ enqueued = <<>>
  /\ consumed = <<>>
  /\ outcomes = [at \in 1..Len(data) |-> blocks_step(data, at - 1)]

ImportFrame == UNCHANGED <<vars, exportVars, data, parts, known, outcomes>>

\* The iteration of blocks() at offset at < len(data): a function of data
\* alone, looked up in outcomes.
blocks_at(at) == outcomes[at + 1]

\* first_block = next(blocks()) and the check of it: a fresh generator runs
\* from offset 0 to its first yield; with no byte to read it ends at once and
\* next() raises StopIteration.
ImportFirst ==
  /\ ipc = "first"
  /\ IF Len(data) = 0
       THEN ipc' = next_exhausted(data) /\ UNCHANGED <<first_block, next_i>>
       ELSE LET r == blocks_at(0)
            IN  IF r.kind # "yield"
                  THEN ipc' = r.kind /\ UNCHANGED <<first_block, next_i>>
                  ELSE /\ first_block' = r.value
                       /\ next_i' = r.next
                       /\ ipc' = IF first_invalid(r.value) THEN "exit_first_invalid"
                                 ELSE "linkage"
  /\ UNCHANGED <<gen_i, block, yielded, block_queue, enqueued, consumed>>
  /\ ImportFrame

\* The check of the linkage of the first block; the loop then starts a second
\* generator at offset 0.
ImportLinkage ==
  /\ ipc = "linkage"
  /\ ipc' = IF linked(known, first_block) THEN "loop" ELSE "exit_unlinked"
  /\ gen_i' = loop_start(next_i)
  /\ UNCHANGED <<next_i, block, first_block, yielded, block_queue, enqueued, consumed>>
  /\ ImportFrame

\* The generator of the loop runs to its next yield.
ImportDecode ==
  /\ ipc = "loop"
  /\ gen_i < Len(data)
  /\ LET r == blocks_at(gen_i)
     IN  IF r.kind # "yield"
           THEN ipc' = r.kind /\ UNCHANGED <<block, next_i, yielded>>
           ELSE /\ ipc' = "yielded"
                /\ block' = r.value
                /\ next_i' = r.next
                /\ yielded' = Append(yielded, [start |-> gen_i, block |-> r.value])
  /\ UNCHANGED <<gen_i, first_block, block_queue, enqueued, consumed>>
  /\ ImportFrame

\* The loop skips None; the generator is resumed.
ImportSkip ==
  /\ ipc = "yielded"
  /\ skip_block(block)
  /\ gen_i' = resume(gen_i, next_i)
  /\ ipc' = "loop"
  /\ UNCHANGED <<next_i, block, first_block, yielded, block_queue, enqueued, consumed>>
  /\ ImportFrame

\* chain.add_block(block, None): put on the queue, which blocks while the
\* queue is full; the generator is resumed.
ImportAddBlock ==
  /\ ipc = "yielded"
  /\ ~skip_block(block)
  /\ Len(block_queue) < MaxQueue
  /\ block_queue' = Append(block_queue, block)
  /\ enqueued' = Append(enqueued, block)
  /\ gen_i' = resume(gen_i, next_i)
  /\ ipc' = "loop"
  /\ UNCHANGED <<next_i, block, first_block, yielded, consumed>>
  /\ ImportFrame

\* The generator finds i >= len(data) and ends; the loop is over.
ImportLoopEnd ==
  /\ ipc = "loop"
  /\ gen_i >= Len(data)
  /\ ipc' = "drain"
  /\ UNCHANGED <<gen_i, next_i, block, first_block, yielded, block_queue, enqueued, consumed>>
  /\ ImportFrame

\* The wait loop sees the queue empty; app.stop() and return.
ImportDrain ==
  /\ ipc = "drain"
  /\ queue_drained(block_queue)
  /\ ipc' = "returned"
  /\ UNCHANGED <<gen_i, next_i, block, first_block, yielded, block_queue, enqueued, consumed>>
  /\ ImportFrame

ImportRunning == ipc \in {"first", "linkage", "loop", "yielded", "drain"}

\* The chain service, while the application runs, takes the oldest block off
\* the queue.
ChainConsume ==
  /\ ImportRunning
  /\ block_queue # <<>>
  /\ block_queue' = Tail(block_queue)
  /\ consumed' = Append(consumed, Head(block_queue))
  /\ UNCHANGED <<ipc, gen_i, next_i, block, first_block, yielded, enqueued>>
  /\ ImportFrame

ImportNext ==
  \/ ImportFirst
  \/ ImportLinkage
  \/ ImportDecode
  \/ ImportSkip
  \/ ImportAddBlock
  \/ ImportLoopEnd
  \/ ImportDrain
  \/ ChainConsume

SpecImport == ImportInit /\ [][ImportNext]_allVars

\* The steps of import_blocks itself.
ImportStep ==
  \/ ImportFirst
  \/ ImportLinkage
  \/ ImportDecode
  \/ ImportSkip
  \/ ImportAddBlock
  \/ ImportLoopEnd
  \/ ImportDrain

\* import_blocks with both tasks scheduled again and again: import_blocks
\* takes its next step when it can (gevent.sleep() returns; a put leaves the
\* queue room), and the chain service goes on taking blocks off the queue.
SpecImportFair ==
  SpecImport /\ WF_allVars(ImportStep) /\ WF_allVars(ChainConsume)

(* ------------------------------ export ---------------------------------- *)

\* Highest number of the head of the chain.
MaxHead == 2

\* The values of an option: left out, or a number from below 0 to above every
\* head.
Options == {Omitted} \cup {Arg(x) : x \in -1..(MaxHead + 1)}

\* What FILE holds before the command: nothing, or bytes of an earlier export.
OldFiles == { <<>>, <<9>> }

\* chain.get_blockhash_by_number(number): the byte standing for the hash of
\* the block of that number; its parent's is the number itself.
get_blockhash_by_number(number) == number + 1

\* The RLP encoding of the block of that number, as the chain stored it.
BlockRlp(number) == BlockBytes(number, get_blockhash_by_number(number))

\* The database of the chain when its head has number head: under the hash
\* of each block up to the head, the compressed encoding of the block.
ChainDb(head) ==
  [h \in 1..(MaxHead + 3) |->
     IF h - 1 <= head THEN <<LiveSlot(compress(BlockRlp(h - 1)))>> ELSE <<>>]

\* from_ = 0 when the option is left out
default_from(f) == IF f.given THEN f ELSE Arg(0)

\* Mutant of default_to: the default of --to is the genesis block.
default_to_genesis(t, head) == IF t.given THEN t ELSE Arg(0)

\* to = head_number when the option is left out
default_to(t, head) == IF t.given THEN t ELSE Arg(head)

\* Mutant of range_error: "to" is not compared with the head.
range_error_unbounded(f, t, head) == f < 0 \/ t < f

\* The three checks that end in sys.exit(1).
range_error(f, t, head) == f < 0 \/ t < f \/ t > head

\* Mutant of range_end: the last block is left out.
range_end_exclusive(t) == t

\* range(from_, to + 1): the first number not exported.
range_end(t) == t + 1

\* export_blocks is called: FILE is opened for appending.
ExportInit ==
  /\ StoreOff
  /\ ImportOff
  /\ args \in Options \X Options \X OldFiles
  /\ from_ = args[1]
  /\ to = args[2]
  /\ file = args[3]
  /\ head_number \in 0..MaxHead
  /\ exp_n = 0
  /\ epc = "start"
  /\ written_n = <<>>

ExportFrame == UNCHANGED <<vars, importVars, args, head_number>>

\* The defaults and the checks of the range, up to the loop.
ExportStart ==
  /\ epc = "start"
  /\ from_' = default_from(from_)
  /\ to' = default_to(to, head_number)
  /\ IF range_error(from_'.n, to'.n, head_number)
       THEN epc' = "exit" /\ UNCHANGED exp_n
       ELSE epc' = "loop" /\ exp_n' = from_'.n
  /\ UNCHANGED <<file, written_n>>
  /\ ExportFrame

\* One iteration of the loop: the block of number n is read from the
\* database and written to FILE; an exception of db.get ends the command.
ExportWrite ==
  /\ epc = "loop"
  /\ exp_n < range_end(to.n)
  /\ LET block_rlp == get(EmptyDict, ChainDb(head_number), get_blockhash_by_number(exp_n))
     IN  IF block_rlp.res # "value"
           THEN epc' = block_rlp.res /\ UNCHANGED <<file, written_n, exp_n>>
           ELSE /\ file' = file \o block_rlp.val
                /\ written_n' = Append(written_n, exp_n)
                /\ exp_n' = exp_n + 1
                /\ epc' = "loop"
  /\ UNCHANGED <<from_, to>>
  /\ ExportFrame

\* The range is exhausted: 'Export complete'.
ExportDone ==
  /\ epc = "loop"
  /\ exp_n >= range_end(to.n)
  /\ epc' = "done"
  /\ UNCHANGED <<from_, to, file, written_n, exp_n>>
  /\ ExportFrame

ExportNext ==
  \/ ExportStart
  \/ ExportWrite
  \/ ExportDone

SpecExport == ExportInit /\ [][ExportNext]_allVars

(* ------------------------------ properties ----------------------------- *)

Raised == {"RecordNotFound", "IOError"}

CommitRaised == last.op = "commit" /\ last.res \in Raised

CommitReturned == last.op = "commit" /\ last.res = "ok"

AppliedKeys == { applied[i][1] : i \in DOMAIN applied }

\* C1: while put(k, v) is the last write of k since the last commit began,
\* get(k) returns exactly v, whatever the database holds for k and whatever
\* was done to the other keys.
ReadYourOwnWrites ==
  \A k \in DOMAIN written :
    written[k].some =>
      get(uncommitted, db, k) = [res |-> "value", val |-> written[k].v]

\* C1 witness: get(k) has just returned the pending value while the database
\* holds a live document for k with another value and another key was
\* written too.
ReadYourOwnWritesSeen ==
  /\ last.op = "get"
  /\ last.key \in DOMAIN written
  /\ written[last.key].some
  /\ last.res = "value"
  /\ last.val = written[last.key].v
  /\ DbGet(db, last.key) # 0
  /\ compress(last.val) \notin LiveValues(db, last.key)
  /\ \E k \in DOMAIN written : k # last.key

\* C2: in every step that ends with delete(k) as the last write of k since
\* the last commit began, get(k) raises KeyError and the step has left the
\* chain of k in the database as it was.
TombstoneShadows ==
  [][\A k \in Keys :
       (k \in DOMAIN written' /\ ~written'[k].some) =>
         /\ get(uncommitted', db', k).res = "KeyError"
         /\ db'[k] = db[k]]_vars

\* C2 witness: get(k) has just raised KeyError for a tombstoned key whose
\* document is still live in the database.
TombstoneShadowsSeen ==
  /\ last.op = "get"
  /\ last.res = "KeyError"
  /\ last.key \in DOMAIN written
  /\ ~written[last.key].some
  /\ DbGet(db, last.key) # 0

\* C3 (as claimed): after a commit that returned, get(k) returns v for every
\* entry (k, v) the commit applied, also when the database held an older
\* (well-formed) value for k when the commit began.
CommitOverwrites ==
  CommitReturned =>
    \A i \in DOMAIN applied :
      LET k == applied[i][1]
          e == applied[i][2]
      IN  (e.some /\ \A s \in LiveValues(begin, k) : ~decompressFails(s, 1)) =>
            get(uncommitted, db, k) = [res |-> "value", val |-> e.v]

\* C4 (as claimed): commit does not raise for a tombstone whose key has no
\* document in the database.
DeleteOfAbsentCommits == ~(last.op = "commit" /\ last.res = "RecordNotFound")

\* C5: a commit that returns leaves the buffer empty, and when no put or
\* delete came since the commit before it, it leaves the database and the
\* buffer as they were when it began.
CommitEmptiesBuffer ==
  [][(pc = "commit" /\ pc' = "idle" /\ last'.res = "ok") =>
       /\ uncommitted' = EmptyDict
       /\ (cleanCommits >= 1 => db' = begin /\ uncommitted' = uncommitted)]_vars

\* C5 witness: a second commit has returned with no write since the first,
\* which had stored a document.
CommitEmptiesBufferSeen ==
  /\ CommitReturned
  /\ cleanCommits = 2
  /\ uncommitted = EmptyDict
  /\ \E k \in Keys : Len(db[k]) = 2

\* C6: when an iteration of commit raises, the exception reaches the caller
\* (commit is over), every entry applied before it still shows in the
\* database, and the chains of the other keys are as they were when the
\* commit began.
CommitFaultKeepsPrefix ==
  CommitRaised =>
    /\ pc = "idle"
    /\ \A i \in DOMAIN applied :
         LET k == applied[i][1]
             e == applied[i][2]
         IN  IF e.some
               THEN /\ compress(e.v) \in LiveValues(db, k)
                    /\ LiveCount(db, k) = LiveCount(begin, k) + 1
               ELSE LiveCount(db, k) = LiveCount(begin, k) - 1
    /\ \A k \in Keys \ AppliedKeys : db[k] = begin[k]

\* C6 witness: a commit raised at its second entry after applying the first.
CommitFaultKeepsPrefixSeen ==
  /\ CommitRaised
  /\ Len(applied) = 1
  /\ Len(items) = 1
  /\ db # begin

\* C7 (as claimed): after a commit that raised, the buffer holds none of the
\* keys applied before the exception and holds the others.
BufferDropsApplied ==
  CommitRaised =>
    /\ \A k \in AppliedKeys : k \notin DOMAIN uncommitted
    /\ \A i \in DOMAIN items : items[i][1] \in DOMAIN uncommitted

\* C7 (amended): after a commit that raised, the buffer holds every entry it
\* held when the commit began: those applied before the exception, the one
\* the exception came at and those after it.
BufferKeptOnFault ==
  CommitRaised =>
    /\ DOMAIN uncommitted = AppliedKeys \cup { items[i][1] : i \in DOMAIN items }
    /\ \A i \in DOMAIN applied : uncommitted[applied[i][1]] = applied[i][2]
    /\ \A i \in DOMAIN items : uncommitted[items[i][1]] = items[i][2]

\* C7 witness: a commit raised after applying one entry, which is still in
\* the buffer.
BufferKeptOnFaultSeen ==
  /\ CommitRaised
  /\ Len(applied) = 1
  /\ applied[1][1] \in DOMAIN uncommitted
  /\ items # <<>>

\* C8 (as claimed): contains(key) never raises and is true exactly when
\* get(key) returns a value.
ContainsNeverRaises ==
  last.op = "contains" =>
    /\ last.res \in {"True", "False"}
    /\ (last.res = "True") <=> (get(uncommitted, db, last.key).res = "value")

\* C9: a step of put, inc_refcount or put_temporarily with key k and value v
\* ends with v pending for k, every other pending entry as it was and the
\* database as it was: the three have the same effect.
RefcountPutsAsPut ==
  [][last'.op \in {"put", "inc_refcount", "put_temporarily"} =>
       /\ DOMAIN uncommitted' = DOMAIN uncommitted \cup {last'.key}
       /\ uncommitted'[last'.key] = Some(last'.val)
       /\ \A k \in DOMAIN uncommitted \ {last'.key} : uncommitted'[k] = uncommitted[k]
       /\ db' = db]_vars

\* C9 witness: put_temporarily has left its value pending for a key the
\* database holds, next to a pending entry of another key.
RefcountPutsAsPutSeen ==
  /\ last.op = "put_temporarily"
  /\ last.key \in DOMAIN uncommitted
  /\ uncommitted[last.key] = Some(last.val)
  /\ DbGet(db, last.key) # 0
  /\ \E k \in DOMAIN uncommitted : k # last.key

RefcountNoOps ==
  {"dec_refcount", "revert_refcount_changes", "commit_refcount_changes", "cleanup"}

\* C10: a step of dec_refcount, revert_refcount_changes,
\* commit_refcount_changes or cleanup leaves the buffer and the database as
\* they were.
RefcountHooksChangeNothing ==
  [][last'.op \in RefcountNoOps => uncommitted' = uncommitted /\ db' = db]_vars

\* C10 witness: dec_refcount was called on a key with a pending put, which is
\* still pending.
RefcountHooksChangeNothingSeen ==
  /\ last.op = "dec_refcount"
  /\ last.key \in DOMAIN uncommitted
  /\ uncommitted[last.key].some

(* --------------------------- properties: import ------------------------- *)

\* What the decoder has to yield for a piece of the file.
ExpectedBlock(p) == IF p.kind = "block" THEN TransientBlock(p.prevhash, p.hash) ELSE NoBlock

\* The offset at which piece j of ps starts.
Offset(ps, j) == Len(Concat(SubSeq(ps, 1, j - 1)))

AllValid(ps) == \A j \in 1..Len(ps) : ps[j].kind = "block"
WellFramed(ps) == \A j \in 1..Len(ps) : ps[j].kind \in {"block", "malformed"}

IsPrefix(a, b) == Len(a) <= Len(b) /\ a = SubSeq(b, 1, Len(a))

\* The generator of the loop has run to its end.
DecodedAll == ipc \in {"drain", "returned"}

\* import_blocks ended on an invalid encoding.
Aborted == ipc \in {"exit_rlp", "IndexError"}

\* C11: a file of N valid items makes the decoder yield exactly N blocks,
\* the j-th being the j-th item, and the decoder ends with its offset equal to
\* the length of the file; no item of such a file stops the decoding.
ValidItemsYieldInOrder ==
  AllValid(parts) =>
    /\ ~Aborted /\ ipc # "exit_first_invalid"
    /\ (DecodedAll \/ ipc = "StopIteration") =>
         /\ Len(yielded) = Len(parts)
         /\ \A j \in 1..Len(parts) : yielded[j].block = ExpectedBlock(parts[j])
         /\ gen_i = Len(data)

ValidItemsYieldInOrderSeen ==
  /\ AllValid(parts)
  /\ Len(parts) >= 3
  /\ ipc = "drain"
  /\ Len(yielded) = Len(parts)

\* C12: a well-framed item that is no list of three fields, or no block,
\* yields one None at its position and does not stop the decoding: for a file
\* of M well-framed items the decoder yields M results, the j-th for the item
\* at the j-th start offset (the block for a valid item, None for another),
\* and reaches the end of the file.
MalformedItemsYieldNone ==
  WellFramed(parts) =>
    /\ ~Aborted
    /\ DecodedAll =>
         /\ Len(yielded) = Len(parts)
         /\ \A j \in 1..Len(parts) :
              /\ yielded[j].start = Offset(parts, j)
              /\ yielded[j].block = ExpectedBlock(parts[j])
         /\ gen_i = Len(data)

MalformedItemsYieldNoneSeen ==
  /\ WellFramed(parts)
  /\ Len(parts) >= 3
  /\ parts[2].kind = "malformed"
  /\ parts[3].kind = "block"
  /\ ipc = "returned"
  /\ ~yielded[2].block.ok
  /\ yielded[3].block.ok

\* consume_item fails at offset at of the file.
DecodeFails(at) == at < Len(data) /\ consume_item(data, at).err # "none"

LinkageGate ==
  (parts # <<>> /\ parts[1].kind = "block") =>
    IF parts[1].hash \in known \/ parts[1].prevhash \in known
      THEN /\ ipc # "exit_unlinked"
           /\ (gen_i > 0 \/ ~ImportRunning) =>
                (enqueued # <<>> /\ Head(enqueued) = ExpectedBlock(parts[1]))
      ELSE /\ ipc \in {"first", "linkage", "exit_unlinked"}
           /\ enqueued = <<>>

LinkageGateSeen ==
  /\ ipc = "exit_unlinked"
  /\ known # {}
  /\ Len(parts) >= 2
  /\ parts[2].kind = "block"

\* The blocks among the pieces ps, in their order.
RECURSIVE ExpectedBlocks(_)
ExpectedBlocks(ps) ==
  IF ps = <<>> THEN <<>>
  ELSE IF Head(ps).kind = "block"
    THEN <<ExpectedBlock(Head(ps))>> \o ExpectedBlocks(Tail(ps))
  ELSE ExpectedBlocks(Tail(ps))

\* C16: over a file of well-framed items whose first block passes the linkage
\* check, the blocks enqueued are, in order, the valid blocks of the file:
\* at every moment a prefix of them, all of them once the file is decoded; an
\* item that is no valid block is not enqueued; the queue hands the blocks on
\* in the order they were enqueued.
EnqueuedAreTheValidBlocks ==
  (WellFramed(parts) /\ ipc \in {"loop", "yielded", "drain", "returned"}) =>
    /\ IsPrefix(enqueued, ExpectedBlocks(parts))
    /\ DecodedAll => enqueued = ExpectedBlocks(parts)
    /\ enqueued = consumed \o block_queue

EnqueuedAreTheValidBlocksSeen ==
  /\ WellFramed(parts)
  /\ Len(parts) >= 3
  /\ parts[2].kind = "malformed"
  /\ ipc = "returned"
  /\ Len(enqueued) = Len(parts) - 1

\* C17: when import_blocks returns, every block it enqueued has been taken
\* by the chain service and the queue is empty, however the steps of the two
\* are interleaved.
DrainBarrier ==
  ipc = "returned" => (block_queue = <<>> /\ consumed = enqueued)

DrainBarrierSeen ==
  /\ ipc = "returned"
  /\ Len(consumed) >= 2

(* --------------------------- properties: export ------------------------- *)

\* The range the options ask for: --from, or 0; --to, or the head.
AskedFrom == IF args[1].given THEN args[1].n ELSE 0
AskedTo == IF args[2].given THEN args[2].n ELSE head_number

AskedRangeValid == AskedFrom >= 0 /\ AskedTo >= AskedFrom /\ AskedTo <= head_number

\* The bytes db.get returns for the blocks a..b, one after the other.
RECURSIVE Records(_, _)
Records(a, b) ==
  IF a > b THEN <<>>
  ELSE get(EmptyDict, ChainDb(head_number), get_blockhash_by_number(a)).val \o Records(a + 1, b)

\* C18: when from < 0, to < from or to > head, export_blocks ends in
\* sys.exit(1) without entering the loop, and FILE holds what it held before
\* the call.
RangeCheckedBeforeWriting ==
  ~AskedRangeValid =>
    /\ epc \in {"start", "exit"}
    /\ file = args[3]
    /\ written_n = <<>>

RangeCheckedBeforeWritingSeen ==
  /\ epc = "exit"
  /\ args[1].given /\ args[1].n >= 0
  /\ args[2].given /\ args[2].n > head_number
  /\ args[3] # <<>>

\* C19: for a valid range, a finished export has appended to what FILE held
\* the records of the blocks from..to, to - from + 1 of them, in ascending
\* order of number, each the bytes db.get returns for the hash of that number;
\* at every moment FILE is what it held followed by the records written so far.
ExportAppendsTheRange ==
  AskedRangeValid =>
    /\ epc \notin {"exit", "KeyError", "Exception"}
    /\ written_n = [j \in 1..Len(written_n) |-> AskedFrom + j - 1]
    /\ file = args[3] \o Records(AskedFrom, AskedFrom + Len(written_n) - 1)
    /\ epc = "done" => Len(written_n) = AskedTo - AskedFrom + 1

ExportAppendsTheRangeSeen ==
  /\ epc = "done"
  /\ args[1].given /\ args[1].n = 1
  /\ args[2].given /\ args[2].n = 2
  /\ args[3] # <<>>
  /\ file = args[3] \o BlockRlp(1) \o BlockRlp(2)

\* C20: from_ left out is 0 and to left out is the head; with neither given
\* the checks of the range pass and a finished export has written the blocks
\* 0..head.
ExportDefaults ==
  /\ epc # "start" =>
       /\ ~args[1].given => from_ = Arg(0)
       /\ ~args[2].given => to = Arg(head_number)
  /\ (~args[1].given /\ ~args[2].given) =>
       /\ epc # "exit"
       /\ epc = "done" => written_n = [j \in 1..(head_number + 1) |-> j - 1]

ExportDefaultsSeen ==
  /\ epc = "done"
  /\ ~args[1].given
  /\ ~args[2].given
  /\ head_number >= 2
  /\ Len(written_n) = head_number + 1

(* --------------------------- properties: store, frame ------------------- *)

\* C21: the database changes only inside commit(): a step from idle (get,
\* put, delete, __contains__, a refcount hook, or the entry into commit)
\* leaves it as it was, and every step that changes it is an iteration of the
\* loop of commit().
DbChangesOnlyInCommit ==
  [][ /\ pc = "idle" => db' = db
      /\ db' # db => (pc = "commit" /\ pc' = "commit" /\ Len(applied') = Len(applied) + 1) ]_allVars

\* C21 witness: put has just returned with a value pending for a key whose
\* document in the database holds another value, as before the call.
DbChangesOnlyInCommitSeen ==
  /\ last.op = "put"
  /\ uncommitted[last.key] = Some(last.val)
  /\ DbGet(db, last.key) # 0
  /\ compress(last.val) \notin LiveValues(db, last.key)
  /\ db = begin

\* C22: per key the last write wins, on every buffer the store reaches: put
\* of the same value twice is put once; put of v2 after put of v1 is put of
\* v2; after delete then put get returns the value put; after put then delete
\* get raises KeyError; delete never raises, also for a key that is neither
\* pending nor in the database, and stores the tombstone.
LastWriterWins ==
  /\ \A k \in Keys, v1 \in Values, v2 \in Values :
       /\ put(put(uncommitted, k, v1), k, v1) = put(uncommitted, k, v1)
       /\ put(put(uncommitted, k, v1), k, v2) = put(uncommitted, k, v2)
       /\ \A x \in DOMAIN uncommitted \ {k} :
            put(put(uncommitted, k, v1), k, v2)[x] = uncommitted[x]
       /\ get(put(delete(uncommitted, k), k, v1), db, k) = [res |-> "value", val |-> v1]
       /\ get(delete(put(uncommitted, k, v1), k), db, k).res = "KeyError"
  /\ last.op = "delete" => (last.res = "ok" /\ uncommitted[last.key] = None)
  /\ last.op = "put" => uncommitted[last.key] = Some(last.val)

\* C22 witness: delete has just returned for a key with no document in the
\* database, the only key of the buffer.
LastWriterWinsSeen ==
  /\ last.op = "delete"
  /\ last.res = "ok"
  /\ db[last.key] = <<>>
  /\ DOMAIN uncommitted = {last.key}

\* The database after the entries es are applied to d one after the other.
RECURSIVE ApplyAll(_, _)
ApplyAll(d, es) ==
  IF es = <<>> THEN d
  ELSE ApplyAll(ApplyEntry(d, Head(es)[1], Head(es)[2]), Tail(es))

\* The sequences that list the entries es in another order.
Reorderings(es) ==
  { [i \in DOMAIN es |-> es[f[i]]] :
      f \in { g \in [DOMAIN es -> DOMAIN es] : \A i, j \in DOMAIN es : i # j => g[i] # g[j] } }

\* C23: after a commit that returned, the database is what applying the
\* entries of the buffer in any other order to the database of before the
\* commit gives.
CommitOrderIrrelevant ==
  CommitReturned => \A es \in Reorderings(applied) : ApplyAll(begin, es) = db

\* C23 witness: a commit has returned that applied a tombstone and then a
\* value, on two keys.
CommitOrderIrrelevantSeen ==
  /\ CommitReturned
  /\ Len(applied) = 2
  /\ ~applied[1][2].some
  /\ applied[2][2].some

\* C24: a get of a key that is not in the buffer and whose stored value
\* decompress rejects raises the exception of decompress (no KeyError, no
\* value) and changes neither the buffer nor the database; a get of a key
\* with a pending value returns that value as it was put, also when
\* decompress would reject it.
CorruptValueSurfaces ==
  [][ (pc = "idle" /\ pc' = "idle" /\ last'.op = "get") =>
        LET k == last'.key
        IN  /\ (k \notin DOMAIN uncommitted /\ DbGet(db, k) # 0
                 /\ decompressFails(db[k][DbGet(db, k)].value, 1)) =>
                   (last'.res = "Exception" /\ uncommitted' = uncommitted /\ db' = db)
            /\ (k \in DOMAIN uncommitted /\ uncommitted[k].some) =>
                   (last'.res = "value" /\ last'.val = uncommitted[k].v
                      /\ uncommitted' = uncommitted /\ db' = db) ]_allVars

\* C24 witness: get has just raised on a corrupt stored value while another
\* key has a pending value that decompress would reject.
CorruptValueSurfacesSeen ==
  /\ last.op = "get"
  /\ last.res = "Exception"
  /\ last.key \notin DOMAIN uncommitted
  /\ \E k \in DOMAIN uncommitted : uncommitted[k].some /\ decompressFails(uncommitted[k].v, 1)

\* C25: a store constructed where no database exists starts with an empty
\* index and an empty buffer, so that get of every key raises KeyError; from
\* there no get ever meets a corrupt value, a value committed for a key
\* without document is what get returns, and a tombstone committed for a key
\* with a document makes get raise KeyError.
FreshStoreWorks ==
  /\ last.op = "init" =>
       /\ uncommitted = EmptyDict
       /\ \A k \in Keys : db[k] = <<>> /\ get(uncommitted, db, k).res = "KeyError"
  /\ last.res # "Exception"
  /\ \A k \in Keys : \A s \in LiveValues(db, k) : ~decompressFails(s, 1)
  /\ CommitReturned =>
       \A i \in DOMAIN applied :
         LET k == applied[i][1]
             e == applied[i][2]
         IN  /\ (e.some /\ DbGet(begin, k) = 0) =>
                  get(uncommitted, db, k) = [res |-> "value", val |-> e.v]
             /\ (~e.some /\ LiveCount(begin, k) = 1) =>
                  get(uncommitted, db, k).res = "KeyError"

\* C25 witness: on a store created fresh, get has just returned the value a
\* commit stored.
FreshStoreWorksSeen ==
  /\ last.op = "get"
  /\ last.res = "value"
  /\ uncommitted = EmptyDict
  /\ DbGet(db, last.key) # 0

\* C29: inside commit(), before and after each iteration, get and
\* __contains__ of every key the commit was entered with answer from the
\* buffer as they did when commit was entered: the pending value, or KeyError
\* and False for a tombstone, whatever the iterations have done to the
\* database so far.
ReadsStableInCommit ==
  pc = "commit" =>
    \A i \in DOMAIN (applied \o items) :
      LET k == (applied \o items)[i][1]
          e == (applied \o items)[i][2]
      IN  /\ k \in DOMAIN uncommitted
          /\ get(uncommitted, db, k) = get(uncommitted, begin, k)
          /\ contains(uncommitted, db, k) = contains(uncommitted, begin, k)
          /\ get(uncommitted, db, k) =
               (IF e.some THEN [res |-> "value", val |-> e.v] ELSE [res |-> "KeyError", val |-> <<>>])

\* C29 witness: commit is between two iterations, having deleted the document
\* of a tombstoned key, with a pending value still to apply.
ReadsStableInCommitSeen ==
  /\ pc = "commit"
  /\ Len(applied) = 1
  /\ Len(items) = 1
  /\ ~applied[1][2].some
  /\ items[1][2].some
  /\ db # begin

(* --------------------------- properties: import, cursor ----------------- *)

\* C26 (as claimed): the offset of the decoder never decreases, each item is
\* decoded from the offset at which the item before it ended (the first from
\* 0), the offset never exceeds the length of the file, and the results come
\* in strictly increasing order of their start offsets.
CursorWithinBuffer ==
  [][ /\ gen_i' >= gen_i
      /\ gen_i' <= Len(data)
      /\ Len(yielded') > Len(yielded) =>
           /\ yielded'[Len(yielded')].start = (IF yielded = <<>> THEN 0 ELSE next_i)
           /\ \A j \in 1..Len(yielded) : yielded[j].start < yielded'[Len(yielded')].start ]_allVars

\* Piece j of ps cannot be decoded where it stands.
BadAt(ps, j) == ps[j].kind = "invalid" \/ (ps[j].kind = "short" /\ j = Len(ps))

\* The import has passed the linkage check.
InLoop == ipc \in {"loop", "yielded", "drain", "returned", "exit_rlp", "IndexError"} /\ first_block.ok

ImportTerminates ==
  /\ [](ipc = "yielded" => next_i > gen_i)
  /\ <>(~ImportRunning)
  /\ (ipc = "drain") ~> (ipc = "returned")

\* C28 witness: import_blocks has returned after decoding as many items as
\* the queue cannot hold at once.
ImportTerminatesSeen ==
  /\ ipc = "returned"
  /\ Len(yielded) >= 3
  /\ Len(enqueued) >= 3

\* The blocks among the results rs of the generator, in order.
RECURSIVE YieldedBlocks(_)
YieldedBlocks(rs) ==
  IF rs = <<>> THEN <<>>
  ELSE IF Head(rs).block.ok THEN <<Head(rs).block>> \o YieldedBlocks(Tail(rs))
  ELSE YieldedBlocks(Tail(rs))

\* C30: once the import has passed the linkage check and decoded the whole
\* file, the blocks enqueued are the blocks the loop decoded, each once; the
\* first of them is the block decoded at offset 0, equal to the first block
\* the linkage check was made on; on a file of well-framed items there are as
\* many as the file has valid blocks.
EveryBlockEnqueuedOnce ==
  DecodedAll =>
    /\ enqueued = YieldedBlocks(yielded)
    /\ yielded # <<>>
    /\ yielded[1].start = 0
    /\ yielded[1].block = first_block
    /\ Head(enqueued) = first_block
    /\ WellFramed(parts) => Len(enqueued) = Len(ExpectedBlocks(parts))

\* C30 witness: the import has returned on a file that holds the same block
\* twice, with both enqueued.
EveryBlockEnqueuedOnceSeen ==
  /\ ipc = "returned"
  /\ Len(parts) = 2
  /\ parts[1] = parts[2]
  /\ enqueued = <<first_block, first_block>>

(* --------------------------- properties: stop --------------------------- *)

\* C31: stop() leaves the documents of the database and the buffer as they
\* were, so that a store opened on the database afterwards answers get for
\* every key as the database did before stop(), pending values and tombstones
\* notwithstanding; the database is closed by stop() exactly when the service
\* was started, and no other step closes it.
StopFlushesNothing ==
  [][ /\ (last'.op = "stop" /\ ~stop_event) =>
           /\ db' = db
           /\ uncommitted' = uncommitted
           /\ \A k \in Keys :
                get(EmptyDict, open_db([exists |-> TRUE, docs |-> db']), k) = get(EmptyDict, db, k)
           /\ stop_event' = started
      /\ stop_event' # stop_event => (last'.op = "stop" /\ started) ]_allVars

\* C31 witness: stop() has closed the database of a started service while a
\* value is pending that the database does not hold.
StopFlushesNothingSeen ==
  /\ last.op = "stop"
  /\ stop_event
  /\ \E k \in DOMAIN uncommitted :
       /\ uncommitted[k].some
       /\ compress(uncommitted[k].v) \notin LiveValues(db, k)
       /\ DbGet(db, k) # 0

(* --------------------------- properties: empty file --------------------- *)

\* C32: on an empty file import_blocks goes from its first step straight to
\* the StopIteration of next(blocks()): nothing is yielded, no first block is
\* set, nothing is enqueued, and neither the linkage check nor the loop, the
\* wait for the queue or the return is reached.
EmptyFileEndsInStopIteration ==
  data = <<>> =>
    /\ ipc \in {"first", "StopIteration"}
    /\ yielded = <<>>
    /\ first_block = NoBlock
    /\ enqueued = <<>>
    /\ block_queue = <<>>

\* C32 witness: import_blocks has ended in StopIteration on an empty file,
\* with a chain that knows blocks.
EmptyFileEndsInStopIterationSeen ==
  /\ data = <<>>
  /\ parts = <<>>
  /\ ipc = "StopIteration"
  /\ known # {}

====
